---- MODULE Spec2Model ----
(***************************************************************************)
(* Model of the go-llm dispatch client (package gollm): construction with  *)
(* functional options and capability auto-detection, the four entry points *)
(* Generate, GenerateStream, Embed and Rerank with their deadline scope,   *)
(* the configuration accessors, and the stream handed back to the caller.  *)
(* Implementations behind the Generator / Embedder / Reranker interfaces   *)
(* are collaborators: their results are nondeterministic, except for the   *)
(* OpenAI adapter, whose code is modelled.                                 *)
(***************************************************************************)
EXTENDS Integers, Sequences, FiniteSets, TLC

\* ------------------------------------------------------------------ bounds
MaxImpl == 3        \* implementation objects 1..MaxImpl
MaxOpts == 1        \* options passed to NewClient
MaxFallback == 2    \* length of a fallback slice
MaxTimeout == 2     \* WithTimeout values 1..MaxTimeout (seconds)
MaxRetry == 4       \* WithRetryCount values 0 and MaxRetry
MaxTime == 2        \* clock values 0..MaxTime (seconds)
MaxDeadline == 2    \* caller deadlines 1..MaxDeadline (absolute seconds)
MaxItems == 1       \* messages / inputs of a request 0..MaxItems
MaxFragments == 2   \* fragments a producer emits on one stream
ChanCap == 1        \* fragments a stream holds before the producer blocks

\* --------------------------------------------------------------- constants
Nil == 0
DefaultRetryCount == 3
DefaultTimeout == 30

VARIABLES phase, args, client, heap, calls, now, got

vars == <<phase, args, client, heap, calls, now, got>>

\* ------------------------------------------------ implementations, types
Impls == 1..MaxImpl

\* The method sets of the implementation types: which of the three
\* interfaces a value satisfies.  Type 1 is a provider with all three
\* (the mock of the tests), type 2 is the OpenAI adapter (Generator only).
MethodSets ==
    << {"generator", "embedder", "reranker"},
       {"generator"},
       {"generator", "embedder"},
       {"embedder", "reranker"},
       {"generator", "reranker"},
       {"embedder"},
       {"reranker"} >>

TypeOf(i) == ((i - 1) % 7) + 1

\* v.(X): the value is non-nil and its dynamic type has X's methods.
Implements(i, cap) == i # Nil /\ cap \in MethodSets[TypeOf(i)]

IsOpenAI(i) == i # Nil /\ TypeOf(i) = 2

\* Values assignable to a variable of the interface type (nil included).
Typed(cap) == {Nil} \cup {i \in Impls : Implements(i, cap)}

\* ------------------------------------------------------ responses, errors
NoResp == [isNil |-> TRUE, by |-> Nil, call |-> 0]
Resp(i, t) == [isNil |-> FALSE, by |-> i, call |-> t]

NoErr == [kind |-> "nil", cap |-> "", by |-> Nil, call |-> 0]
ErrUnavailable(cap) == [kind |-> "unavailable", cap |-> cap, by |-> Nil, call |-> 0]
ImplErr(i, t) == [kind |-> "impl", cap |-> "", by |-> i, call |-> t]

\* What one invocation of an implementation's method can come back with.
Out(r, e) == [resp |-> r, err |-> e, panics |-> FALSE]
OutPanic == [resp |-> NoResp, err |-> NoErr, panics |-> TRUE]
NoOut == Out(NoResp, NoErr)

OpenAIGenerate(i, t) == {Out(Resp(i, t), NoErr), Out(NoResp, ImplErr(i, t))}

OpenAIGenerateStream(i, t) == {Out(NoResp, NoErr)}

\* Any other implementation is only bound by the interface's signature.
ContractOutcomes(i, t) ==
    {Out(r, e) : r \in {NoResp, Resp(i, t)}, e \in {NoErr, ImplErr(i, t)}}
        \cup {OutPanic}

Outcomes(i, method, t) ==
    IF IsOpenAI(i) /\ method = "Generate" THEN OpenAIGenerate(i, t)
    ELSE IF IsOpenAI(i) /\ method = "GenerateStream" THEN OpenAIGenerateStream(i, t)
    ELSE ContractOutcomes(i, t)

\* ---------------------------------------------------------------- slices
NilSlice == [arr |-> 0, len |-> 0]

\* The elements a slice header designates in the heap of backing arrays.
Elems(h, s) == IF s.arr = 0 THEN << >> ELSE SubSeq(h[s.arr].elems, 1, s.len)

RECURSIVE SeqsUpTo(_, _)
SeqsUpTo(S, n) ==
    IF n = 0 THEN {<< >>}
    ELSE LET shorter == SeqsUpTo(S, n - 1)
         IN  shorter \cup {Append(q, x) : q \in {p \in shorter : Len(p) = n - 1}, x \in S}

\* ---------------------------------------------------------------- client
NoClient ==
    [llm |-> Nil, embedder |-> Nil, reranker |-> Nil,
     retryCount |-> 0,
     fallbackGenerator |-> NilSlice, fallbackEmbedder |-> NilSlice,
     fallbackReranker |-> NilSlice,
     timeout |-> 0, debug |-> FALSE, logger |-> Nil]

Opt(kind, impl, n, flag, list) ==
    [kind |-> kind, impl |-> impl, n |-> n, flag |-> flag, list |-> list]

Options ==
    {Opt("WithEmbedder", e, 0, FALSE, << >>) : e \in Typed("embedder")}
    \cup {Opt("WithReranker", r, 0, FALSE, << >>) : r \in Typed("reranker")}
    \cup {Opt("WithRetryCount", Nil, n, FALSE, << >>) : n \in {0, MaxRetry}}
    \cup {Opt("WithTimeout", Nil, d, FALSE, << >>) : d \in 1..MaxTimeout}
    \cup {Opt("WithDebug", Nil, 0, b, << >>) : b \in BOOLEAN}
    \cup {Opt("WithFallbackGenerators", Nil, 0, FALSE, l) :
            l \in SeqsUpTo(Typed("generator") \ {Nil}, MaxFallback)}
    \cup {Opt("WithFallbackEmbedders", Nil, 0, FALSE, l) :
            l \in SeqsUpTo(Typed("embedder") \ {Nil}, MaxFallback)}
    \cup {Opt("WithFallbackRerankers", Nil, 0, FALSE, l) :
            l \in SeqsUpTo(Typed("reranker") \ {Nil}, MaxFallback)}

\* The slice value the caller built for a WithFallback* option: a header
\* onto a fresh backing array (no array behind an empty slice).
SliceArg(h, list) ==
    IF list = << >> THEN NilSlice ELSE [arr |-> Len(h) + 1, len |-> Len(list)]

WithArray(h, cap, list) ==
    IF list = << >> THEN h ELSE Append(h, [cap |-> cap, elems |-> list])

\* WithEmbedder that only binds when nothing was detected.
WithEmbedderKeepsDetected(c, emb) ==
    IF c.embedder # Nil THEN c ELSE [c EXCEPT !.embedder = emb]

WithEmbedder(c, emb) == [c EXCEPT !.embedder = emb]

WithReranker(c, rer) == [c EXCEPT !.reranker = rer]

\* WithRetryCount that caps the count at the default.
WithRetryCountClamped(c, count) ==
    [c EXCEPT !.retryCount = IF count > DefaultRetryCount
                             THEN DefaultRetryCount ELSE count]

WithRetryCount(c, count) == [c EXCEPT !.retryCount = count]

WithFallbackGenerators(c, generators) == [c EXCEPT !.fallbackGenerator = generators]

WithFallbackEmbedders(c, embedders) == [c EXCEPT !.fallbackEmbedder = embedders]

WithFallbackRerankers(c, rerankers) == [c EXCEPT !.fallbackReranker = rerankers]

WithTimeout(c, timeout) == [c EXCEPT !.timeout = timeout]

WithDebug(c, debug) == [c EXCEPT !.debug = debug]

\* opt(client) for one option; st carries the client under construction and
\* the heap holding the caller's slices.
ApplyOpt(st, o) ==
    CASE o.kind = "WithEmbedder" -> [st EXCEPT !.c = WithEmbedder(st.c, o.impl)]
      [] o.kind = "WithReranker" -> [st EXCEPT !.c = WithReranker(st.c, o.impl)]
      [] o.kind = "WithRetryCount" -> [st EXCEPT !.c = WithRetryCount(st.c, o.n)]
      [] o.kind = "WithTimeout" -> [st EXCEPT !.c = WithTimeout(st.c, o.n)]
      [] o.kind = "WithDebug" -> [st EXCEPT !.c = WithDebug(st.c, o.flag)]
      [] o.kind = "WithFallbackGenerators" ->
            [c |-> WithFallbackGenerators(st.c, SliceArg(st.h, o.list)),
             h |-> WithArray(st.h, "generator", o.list)]
      [] o.kind = "WithFallbackEmbedders" ->
            [c |-> WithFallbackEmbedders(st.c, SliceArg(st.h, o.list)),
             h |-> WithArray(st.h, "embedder", o.list)]
      [] o.kind = "WithFallbackRerankers" ->
            [c |-> WithFallbackRerankers(st.c, SliceArg(st.h, o.list)),
             h |-> WithArray(st.h, "reranker", o.list)]

RECURSIVE ApplyOpts(_, _)
ApplyOpts(st, opts) ==
    IF opts = << >> THEN st ELSE ApplyOpts(ApplyOpt(st, Head(opts)), Tail(opts))

\* NewClient without the second type assertion.
AutoDetectNoReranker(llm) ==
    [NoClient EXCEPT
        !.llm = llm,
        !.retryCount = DefaultRetryCount,
        !.timeout = DefaultTimeout,
        !.debug = FALSE,
        !.embedder = IF Implements(llm, "embedder") THEN llm ELSE Nil]

\* The client literal of NewClient followed by the two type assertions.
AutoDetect(llm) ==
    [NoClient EXCEPT
        !.llm = llm,
        !.retryCount = DefaultRetryCount,
        !.timeout = DefaultTimeout,
        !.debug = FALSE,
        !.embedder = IF Implements(llm, "embedder") THEN llm ELSE Nil,
        !.reranker = IF Implements(llm, "reranker") THEN llm ELSE Nil]

\* The logger is built last and carries the generator's name (GetName()).
WithLogger(c) == [c EXCEPT !.logger = c.llm]

\* ------------------------------------------------------------- accessors
HasGenerator(c) == c.llm # Nil

HasEmbedder(c) == c.embedder # Nil

HasReranker(c) == c.reranker # Nil

RetryCount(c) == c.retryCount

FallbackGenerators(c) == c.fallbackGenerator

FallbackEmbedders(c) == c.fallbackEmbedder

FallbackRerankers(c) == c.fallbackReranker

Timeout(c) == c.timeout

Debug(c) == c.debug

\* -------------------------------------------------------------- contexts
\* The caller's context: context.Background(), or a context with a deadline
\* (absolute time) that the caller can also cancel.
Background == [has |-> FALSE, at |-> 0, cancellable |-> FALSE, cancelled |-> FALSE]

CallerContexts ==
    {Background}
    \cup {[has |-> TRUE, at |-> d, cancellable |-> TRUE, cancelled |-> FALSE] :
            d \in 1..MaxDeadline}

ParentDone(p, time) == p.cancelled \/ (p.has /\ time >= p.at)

NoCtx == [live |-> FALSE, deadline |-> 0, linked |-> FALSE, cancelled |-> FALSE]

\* context.WithTimeout(context.Background(), timeout): the caller's context
\* is left out.
ContextWithTimeoutDetached(parent, timeout, t0) ==
    [live |-> TRUE, deadline |-> t0 + timeout, linked |-> FALSE, cancelled |-> FALSE]

\* context.WithTimeout(parent, timeout) at time t0: a child of parent whose
\* deadline is t0 + timeout unless parent's deadline is earlier.
ContextWithTimeout(parent, timeout, t0) ==
    [live |-> TRUE,
     deadline |-> IF parent.has /\ parent.at < t0 + timeout
                  THEN parent.at ELSE t0 + timeout,
     linked |-> TRUE,
     cancelled |-> FALSE]

\* cancel(): releases the deadline scope.
Release(ctx) == [ctx EXCEPT !.cancelled = TRUE]

\* ctx.Done() is closed.
Done(ctx, parent, time) ==
    ctx.live /\ (ctx.cancelled \/ (ctx.linked /\ ParentDone(parent, time))
                               \/ time >= ctx.deadline)

\* ----------------------------------------------------------------- calls
NoChan == [made |-> FALSE, sent |-> << >>, taken |-> 0, closed |-> FALSE]

NoRet == [resp |-> NoResp, err |-> NoErr]

IdleCall ==
    [pc |-> "idle", op |-> "", req |-> 0, parent |-> Background, ctx |-> NoCtx,
     start |-> 0, invoked |-> << >>, out |-> NoOut, ret |-> NoRet,
     panic |-> "", chan |-> NoChan, recv |-> << >>, ended |-> FALSE]

Threads == DOMAIN calls

\* The caller's local variable for the value an accessor returned; it goes
\* out of scope when the caller starts its next call.
NoGot == [acc |-> "", int |-> 0, flag |-> FALSE, slice |-> NilSlice]

\* return resp, err: the response is handed on beside the error.
ResultKeepsResp(out) == [resp |-> out.resp, err |-> out.err]

\* return nil, nil on the success path: the response is lost.
ResultLosesResp(out) ==
    IF out.err.kind # "nil" THEN [resp |-> NoResp, err |-> out.err]
    ELSE [resp |-> NoResp, err |-> NoErr]

\* What an entry point returns for the outcome of the bound implementation:
\*   if err != nil { return nil, err }; return resp, nil
Result(out) ==
    IF out.err.kind # "nil" THEN [resp |-> NoResp, err |-> out.err]
    ELSE [resp |-> out.resp, err |-> NoErr]

\* request.Messages[0] / request.Input[0] of the debug line.
FirstItemReadable(req) == req >= 1

\* An entry point up to the point where the bound implementation is running:
\* capability check, debug line, deadline scope, invocation.
Begin(t, method, present, impl, cap, logOK, parent, req) ==
    /\ phase = "ready"
    /\ calls[t].pc = "idle"
    /\ LET c0 == [IdleCall EXCEPT !.op = method, !.req = req,
                                  !.parent = parent, !.start = now]
       IN  calls' = [calls EXCEPT ![t] =
              IF ~present
              THEN [c0 EXCEPT !.pc = "returned",
                              !.ret = [resp |-> NoResp, err |-> ErrUnavailable(cap)]]
              ELSE IF client.debug /\ ~logOK
              THEN [c0 EXCEPT !.pc = "panicked", !.panic = "log"]
              ELSE IF impl = Nil
              THEN [c0 EXCEPT !.pc = "panicked", !.panic = "nil",
                              !.ctx = Release(ContextWithTimeout(parent, client.timeout, now))]
              ELSE [c0 EXCEPT !.pc = "running",
                              !.ctx = ContextWithTimeout(parent, client.timeout, now),
                              !.invoked = << [impl |-> impl, method |-> method] >>]]
    /\ got' = NoGot
    /\ UNCHANGED <<phase, args, client, heap, now>>

\* An entry point whose scope is a field of the client: its cancel()
\* releases the scope of every call under way.
CompleteSharedScope(t, method, out) ==
    /\ calls[t].pc = "running"
    /\ calls[t].op = method
    /\ out \in Outcomes(calls[t].invoked[1].impl, method, t)
    /\ calls' = [u \in Threads |->
          IF u # t
          THEN [calls[u] EXCEPT !.ctx = IF @.live THEN Release(@) ELSE @]
          ELSE IF out.panics
          THEN [calls[t] EXCEPT !.pc = "panicked", !.panic = "impl", !.out = out,
                                !.ctx = Release(@)]
          ELSE [calls[t] EXCEPT !.pc = "returned", !.out = out, !.ret = Result(out),
                                !.ctx = Release(@),
                                !.chan = IF method = "GenerateStream" /\ ~out.resp.isNil
                                         THEN [NoChan EXCEPT !.made = TRUE] ELSE NoChan]]
    /\ UNCHANGED <<phase, args, client, heap, now, got>>

\* An entry point whose cancel() only runs on the success path.
CompleteLeaksOnError(t, method, out) ==
    /\ calls[t].pc = "running"
    /\ calls[t].op = method
    /\ out \in Outcomes(calls[t].invoked[1].impl, method, t)
    /\ calls' = [calls EXCEPT ![t] =
          IF out.panics
          THEN [@ EXCEPT !.pc = "panicked", !.panic = "impl", !.out = out]
          ELSE [@ EXCEPT !.pc = "returned", !.out = out, !.ret = Result(out),
                         !.ctx = IF out.err = NoErr THEN Release(@) ELSE @,
                         !.chan = IF method = "GenerateStream" /\ ~out.resp.isNil
                                  THEN [NoChan EXCEPT !.made = TRUE] ELSE NoChan]]
    /\ UNCHANGED <<phase, args, client, heap, now, got>>

\* An entry point that calls the implementation a second time after an
\* error when the retry count allows it.
CompleteRetries(t, method, out) ==
    /\ calls[t].pc = "running"
    /\ calls[t].op = method
    /\ out \in Outcomes(calls[t].invoked[1].impl, method, t)
    /\ calls' = [calls EXCEPT ![t] =
          IF out.panics
          THEN [@ EXCEPT !.pc = "panicked", !.panic = "impl", !.out = out,
                         !.ctx = Release(@)]
          ELSE IF out.err # NoErr /\ client.retryCount > 0 /\ Len(@.invoked) = 1
          THEN [@ EXCEPT !.invoked = Append(@, calls[t].invoked[1])]
          ELSE [@ EXCEPT !.pc = "returned", !.out = out, !.ret = Result(out),
                         !.ctx = Release(@),
                         !.chan = IF method = "GenerateStream" /\ ~out.resp.isNil
                                  THEN [NoChan EXCEPT !.made = TRUE] ELSE NoChan]]
    /\ UNCHANGED <<phase, args, client, heap, now, got>>

\* The rest of an entry point: the implementation has come back with out,
\* the result is chosen and the deferred cancel() runs.
Complete(t, method, out) ==
    /\ calls[t].pc = "running"
    /\ calls[t].op = method
    /\ out \in Outcomes(calls[t].invoked[1].impl, method, t)
    /\ calls' = [calls EXCEPT ![t] =
          IF out.panics
          THEN [@ EXCEPT !.pc = "panicked", !.panic = "impl", !.out = out,
                         !.ctx = Release(@)]
          ELSE [@ EXCEPT !.pc = "returned", !.out = out, !.ret = Result(out),
                         !.ctx = Release(@),
                         !.chan = IF method = "GenerateStream" /\ ~out.resp.isNil
                                  THEN [NoChan EXCEPT !.made = TRUE] ELSE NoChan]]
    /\ UNCHANGED <<phase, args, client, heap, now, got>>

GenerateCall(t, parent, req) ==
    Begin(t, "Generate", client.llm # Nil, client.llm, "generator",
          FirstItemReadable(req), parent, req)

GenerateReturn(t, out) == Complete(t, "Generate", out)

GenerateStreamCall(t, parent, req) ==
    Begin(t, "GenerateStream", client.llm # Nil, client.llm, "generator",
          FirstItemReadable(req), parent, req)

GenerateStreamReturn(t, out) == Complete(t, "GenerateStream", out)

\* Embed guarding on c.llm instead of c.embedder.
EmbedCallChecksLlm(t, parent, req) ==
    Begin(t, "Embed", client.llm # Nil, client.embedder, "embedder",
          FirstItemReadable(req), parent, req)

EmbedCall(t, parent, req) ==
    Begin(t, "Embed", client.embedder # Nil, client.embedder, "embedder",
          FirstItemReadable(req), parent, req)

EmbedReturn(t, out) == Complete(t, "Embed", out)

RerankCall(t, parent, req) ==
    Begin(t, "Rerank", client.reranker # Nil, client.reranker, "reranker",
          TRUE, parent, req)

RerankReturn(t, out) == Complete(t, "Rerank", out)

\* --------------------------------------------------------- construction
\* NewClient with the nil guard after the options loop.
NewClientGuardsLast(llm, opts) ==
    /\ phase = "new"
    /\ args' = [llm |-> llm, opts |-> opts]
    /\ IF llm = Nil
       THEN LET st == ApplyOpts([c |-> NoClient, h |-> heap], opts)
            IN  /\ phase' = "panicked"
                /\ client' = st.c
                /\ heap' = st.h
       ELSE LET st == ApplyOpts([c |-> AutoDetect(llm), h |-> heap], opts)
            IN  /\ phase' = "ready"
                /\ client' = WithLogger(st.c)
                /\ heap' = st.h
    /\ UNCHANGED <<calls, now, got>>

NewClient(llm, opts) ==
    /\ phase = "new"
    /\ args' = [llm |-> llm, opts |-> opts]
    /\ IF llm = Nil
       THEN /\ phase' = "panicked"
            /\ UNCHANGED <<client, heap>>
       ELSE LET st == ApplyOpts([c |-> AutoDetect(llm), h |-> heap], opts)
            IN  /\ phase' = "ready"
                /\ client' = WithLogger(st.c)
                /\ heap' = st.h
    /\ UNCHANGED <<calls, now, got>>

\* ------------------------------------------------- the caller's other steps
Accessors ==
    {"HasGenerator", "HasEmbedder", "HasReranker", "RetryCount", "Timeout",
     "Debug", "FallbackGenerators", "FallbackEmbedders", "FallbackRerankers"}

Read(c, acc) ==
    CASE acc = "HasGenerator" -> [NoGot EXCEPT !.acc = acc, !.flag = HasGenerator(c)]
      [] acc = "HasEmbedder" -> [NoGot EXCEPT !.acc = acc, !.flag = HasEmbedder(c)]
      [] acc = "HasReranker" -> [NoGot EXCEPT !.acc = acc, !.flag = HasReranker(c)]
      [] acc = "Debug" -> [NoGot EXCEPT !.acc = acc, !.flag = Debug(c)]
      [] acc = "RetryCount" -> [NoGot EXCEPT !.acc = acc, !.int = RetryCount(c)]
      [] acc = "Timeout" -> [NoGot EXCEPT !.acc = acc, !.int = Timeout(c)]
      [] acc = "FallbackGenerators" -> [NoGot EXCEPT !.acc = acc, !.slice = FallbackGenerators(c)]
      [] acc = "FallbackEmbedders" -> [NoGot EXCEPT !.acc = acc, !.slice = FallbackEmbedders(c)]
      [] acc = "FallbackRerankers" -> [NoGot EXCEPT !.acc = acc, !.slice = FallbackRerankers(c)]

\* The caller reads one accessor between two calls.
Inspect(t, acc) ==
    /\ phase = "ready"
    /\ calls[t].pc = "idle"
    /\ got' = Read(client, acc)
    /\ got' # got
    /\ UNCHANGED <<phase, args, client, heap, calls, now>>

\* s[i] = v by the caller between two calls, on a slice value it holds.
Store(t, s, i, v) ==
    /\ phase = "ready"
    /\ calls[t].pc = "idle"
    /\ s.arr # 0
    /\ i \in 1..s.len
    /\ v \in Typed(heap[s.arr].cap)
    /\ v # heap[s.arr].elems[i]
    /\ heap' = [heap EXCEPT ![s.arr].elems[i] = v]
    /\ UNCHANGED <<phase, args, client, calls, now, got>>

\* ... on the slice it passed to a WithFallback* option,
WriteArg(t, a, i, v) ==
    /\ a \in DOMAIN heap
    /\ Store(t, [arr |-> a, len |-> Len(heap[a].elems)], i, v)

\* ... on the slice a Fallback*() accessor returned.
WriteGot(t, i, v) == Store(t, got.slice, i, v)

\* The implementation's call is under way: the only time its context can
\* still become done (after the return the scope is released for good).
InFlight(t) == calls[t].pc = "running"

\* The caller cancels the context it passed.
CallerCancel(t) ==
    /\ InFlight(t)
    /\ calls[t].parent.cancellable
    /\ ~calls[t].parent.cancelled
    /\ calls' = [calls EXCEPT ![t].parent.cancelled = TRUE]
    /\ UNCHANGED <<phase, args, client, heap, now, got>>

\* A second passes while an implementation is at work.
Tick ==
    /\ now < MaxTime
    /\ \E t \in Threads : InFlight(t)
    /\ now' = now + 1
    /\ UNCHANGED <<phase, args, client, heap, calls, got>>

\* The caller is done with the result of its call.  Deadlines only depend on
\* time differences: the clock counts from the moment no call was under way.
Finish(t) ==
    /\ calls[t].pc \in {"returned", "panicked"}
    /\ calls' = [calls EXCEPT ![t] = IdleCall]
    /\ now' = IF \A u \in Threads \ {t} : calls[u].pc = "idle" THEN 0 ELSE now
    /\ UNCHANGED <<phase, args, client, heap, got>>

\* --------------------------------------------------------------- streams
\* The producer behind the channel an implementation's GenerateStream made.
Emit(t) ==
    /\ calls[t].chan.made
    /\ ~calls[t].chan.closed
    /\ Len(calls[t].chan.sent) < MaxFragments
    /\ Len(calls[t].chan.sent) - calls[t].chan.taken < ChanCap
    /\ calls' = [calls EXCEPT ![t].chan.sent = Append(@, Len(@) + 1)]
    /\ UNCHANGED <<phase, args, client, heap, now, got>>

Close(t) ==
    /\ calls[t].chan.made
    /\ ~calls[t].chan.closed
    /\ calls' = [calls EXCEPT ![t].chan.closed = TRUE]
    /\ UNCHANGED <<phase, args, client, heap, now, got>>

\* The channel the caller ranges over: the stream its call returned.
StreamOf(t) == calls[calls[t].ret.resp.call].chan

Consuming(t) ==
    /\ calls[t].pc = "returned"
    /\ calls[t].op = "GenerateStream"
    /\ ~calls[t].ret.resp.isNil
    /\ ~calls[t].ended

\* for resp := range stream { responses = append(responses, resp) }
Receive(t) ==
    /\ Consuming(t)
    /\ LET p == calls[t].ret.resp.call
           ch == StreamOf(t)
       IN  /\ ch.taken < Len(ch.sent)
           /\ calls' = [calls EXCEPT
                  ![t].recv = Append(@, ch.sent[ch.taken + 1]),
                  ![p].chan.taken = @ + 1]
    /\ UNCHANGED <<phase, args, client, heap, now, got>>

RangeEnds(t) ==
    /\ Consuming(t)
    /\ StreamOf(t).closed
    /\ StreamOf(t).taken = Len(StreamOf(t).sent)
    /\ calls' = [calls EXCEPT ![t].ended = TRUE]
    /\ UNCHANGED <<phase, args, client, heap, now, got>>

\* --------------------------------------------------------- specification
Requests == 0..MaxItems

Init ==
    /\ phase = "new"
    /\ args = [llm |-> Nil, opts |-> << >>]
    /\ client = NoClient
    /\ heap = << >>
    /\ calls = [t \in {1} |-> IdleCall]
    /\ now = 0
    /\ got = NoGot

Next ==
    \/ \E llm \in Typed("generator"), opts \in SeqsUpTo(Options, MaxOpts) :
          NewClient(llm, opts)
    \/ \E t \in Threads, parent \in CallerContexts, req \in Requests :
          GenerateCall(t, parent, req)
    \/ \E t \in Threads : \E out \in Outcomes(client.llm, "Generate", t) :
          GenerateReturn(t, out)
    \/ \E t \in Threads, parent \in CallerContexts, req \in Requests :
          GenerateStreamCall(t, parent, req)
    \/ \E t \in Threads : \E out \in Outcomes(client.llm, "GenerateStream", t) :
          GenerateStreamReturn(t, out)
    \/ \E t \in Threads, parent \in CallerContexts, req \in Requests :
          EmbedCall(t, parent, req)
    \/ \E t \in Threads : \E out \in Outcomes(client.embedder, "Embed", t) :
          EmbedReturn(t, out)
    \/ \E t \in Threads, parent \in CallerContexts, req \in Requests :
          RerankCall(t, parent, req)
    \/ \E t \in Threads : \E out \in Outcomes(client.reranker, "Rerank", t) :
          RerankReturn(t, out)
    \/ \E t \in Threads, acc \in Accessors : Inspect(t, acc)
    \/ \E t \in Threads, a \in 1..Len(heap), i \in 1..MaxFallback, v \in {Nil} \cup Impls :
          WriteArg(t, a, i, v)
    \/ \E t \in Threads, i \in 1..MaxFallback, v \in {Nil} \cup Impls : WriteGot(t, i, v)
    \/ \E t \in Threads : CallerCancel(t)
    \/ Tick
    \/ \E t \in Threads : Finish(t)
    \/ \E t \in Threads : Emit(t)
    \/ \E t \in Threads : Close(t)
    \/ \E t \in Threads : Receive(t)
    \/ \E t \in Threads : RangeEnds(t)

Spec == Init /\ [][Next]_vars

\* ------------------------------------------------- two goroutines, one client
\* Two goroutines call the entry points of one client at the same time.  The
\* client is built on a provider with all three capabilities, with the
\* default timeout or a short one; requests have a first item.
ConcThreads == {1, 2}

ConcOptions == {Opt("WithTimeout", Nil, d, FALSE, << >>) : d \in 1..MaxTimeout}

ConcContexts == {p \in CallerContexts : p.at <= 1}

InitConc ==
    /\ phase = "new"
    /\ args = [llm |-> Nil, opts |-> << >>]
    /\ client = NoClient
    /\ heap = << >>
    /\ calls = [t \in ConcThreads |-> IdleCall]
    /\ now = 0
    /\ got = NoGot

NextConc ==
    \/ \E llm \in {Nil} \cup {i \in Impls : TypeOf(i) = 1}, opts \in SeqsUpTo(ConcOptions, 1) :
          NewClient(llm, opts)
    \/ \E t \in Threads, parent \in ConcContexts : GenerateCall(t, parent, 1)
    \/ \E t \in Threads : \E out \in Outcomes(client.llm, "Generate", t) :
          GenerateReturn(t, out)
    \/ \E t \in Threads, parent \in ConcContexts : GenerateStreamCall(t, parent, 1)
    \/ \E t \in Threads : \E out \in Outcomes(client.llm, "GenerateStream", t) :
          GenerateStreamReturn(t, out)
    \/ \E t \in Threads, parent \in ConcContexts : EmbedCall(t, parent, 1)
    \/ \E t \in Threads : \E out \in Outcomes(client.embedder, "Embed", t) :
          EmbedReturn(t, out)
    \/ \E t \in Threads, parent \in ConcContexts : RerankCall(t, parent, 1)
    \/ \E t \in Threads : \E out \in Outcomes(client.reranker, "Rerank", t) :
          RerankReturn(t, out)
    \/ \E t \in Threads : CallerCancel(t)
    \/ Tick
    \/ \E t \in Threads : Finish(t)

SpecConc == InitConc /\ [][NextConc]_vars

\* ---------------------------------------------------------------- claims
Returned(t) == calls[t].pc = "returned"

Unavailable(cap) == [resp |-> NoResp, err |-> ErrUnavailable(cap)]

\* The fallback slice of the capability an entry point serves.
FallbackFor(method) ==
    CASE method \in {"Generate", "GenerateStream"} -> FallbackGenerators(client)
      [] method = "Embed" -> FallbackEmbedders(client)
      [] method = "Rerank" -> FallbackRerankers(client)
      [] OTHER -> NilSlice

\* C1: on a client without an embedder (reranker) binding HasEmbedder()
\* (HasReranker()) is false and every Embed (Rerank) call has returned nil
\* with the capability-unavailable error without invoking any implementation.
C1_UnavailableWithoutInvocation ==
    \A t \in Threads :
        /\ (phase = "ready" /\ client.embedder = Nil) =>
              /\ ~HasEmbedder(client)
              /\ calls[t].op = "Embed" =>
                    /\ Returned(t)
                    /\ calls[t].ret = Unavailable("embedder")
                    /\ calls[t].invoked = << >>
        /\ (phase = "ready" /\ client.reranker = Nil) =>
              /\ ~HasReranker(client)
              /\ calls[t].op = "Rerank" =>
                    /\ Returned(t)
                    /\ calls[t].ret = Unavailable("reranker")
                    /\ calls[t].invoked = << >>

C1_Witness ==
    \E t \in Threads :
        /\ phase = "ready"
        /\ client.embedder = Nil
        /\ calls[t].op = "Embed"
        /\ Returned(t)
        /\ calls[t].ret.err.kind = "unavailable"

\* C2: when the primary implementation failed and the capability has
\* fallbacks, the entry point has gone through the fallback list: it returns
\* an error only after the primary and every fallback were invoked.
C2_FallbackTried ==
    \A t \in Threads :
        (/\ Returned(t)
         /\ calls[t].out.err.kind = "impl"
         /\ calls[t].ret.err.kind # "nil")
        => Len(calls[t].invoked) = 1 + FallbackFor(calls[t].op).len

\* C3: after NewClient(primary) with no options the generator is bound,
\* the embedder (reranker) is bound exactly when the primary satisfies the
\* Embedder (Reranker) interface, and every binding is the primary itself.
C3_AutoDetection ==
    (phase = "ready" /\ args.opts = << >>) =>
        /\ HasGenerator(client)
        /\ client.llm = args.llm
        /\ HasEmbedder(client) <=> Implements(args.llm, "embedder")
        /\ HasEmbedder(client) => client.embedder = args.llm
        /\ HasReranker(client) <=> Implements(args.llm, "reranker")
        /\ HasReranker(client) => client.reranker = args.llm

C3_Witness ==
    /\ phase = "ready"
    /\ args.opts = << >>
    /\ HasGenerator(client) /\ HasEmbedder(client) /\ HasReranker(client)
    /\ client.embedder = args.llm /\ client.reranker = args.llm

\* C4: with an empty fallback list, an entry point whose bound
\* implementation returned error e returns exactly e and a nil response,
\* also when the implementation returned a response beside e.
C4_ErrorPropagatedUnchanged ==
    \A t \in Threads :
        (/\ Returned(t)
         /\ calls[t].invoked # << >>
         /\ calls[t].out.err.kind # "nil"
         /\ FallbackFor(calls[t].op).len = 0)
        => /\ calls[t].ret.err = calls[t].out.err
           /\ calls[t].ret.resp.isNil

C4_Witness ==
    \E t \in Threads :
        /\ Returned(t)
        /\ calls[t].invoked # << >>
        /\ calls[t].out.err.kind # "nil"
        /\ ~calls[t].out.resp.isNil
        /\ FallbackFor(calls[t].op).len = 0
        /\ calls[t].ret.err = calls[t].out.err

\* C5: every return of an entry point is either a response (stream) with a
\* nil error or a nil response with an error, never both nil or both set.
C5_ResponseXorError ==
    \A t \in Threads :
        Returned(t) => (calls[t].ret.resp.isNil <=> calls[t].ret.err.kind # "nil")

\* C6: once GenerateStream has returned a stream, the client has not
\* cancelled the context it handed to the implementation.
C6_StreamContextLeftAlone ==
    \A t \in Threads :
        (/\ Returned(t)
         /\ calls[t].op = "GenerateStream"
         /\ ~calls[t].ret.resp.isNil)
        => ~calls[t].ctx.cancelled

Earlier(a, b) == IF a < b THEN a ELSE b

\* C7: while the bound implementation runs, the context it was given is
\* done exactly when the caller's context is done or the client timeout has
\* elapsed since the start of the call; its deadline is the earlier of the
\* caller's deadline and start + timeout.
C7_EarlierDeadlineGoverns ==
    \A t \in Threads :
        calls[t].pc = "running" =>
            /\ Done(calls[t].ctx, calls[t].parent, now)
                  <=> \/ ParentDone(calls[t].parent, now)
                      \/ now >= calls[t].start + Timeout(client)
            /\ calls[t].ctx.deadline =
                  IF calls[t].parent.has
                  THEN Earlier(calls[t].parent.at, calls[t].start + Timeout(client))
                  ELSE calls[t].start + Timeout(client)

C7_Witness ==
    \E t \in Threads :
        /\ calls[t].pc = "running"
        /\ calls[t].parent.has
        /\ ~calls[t].parent.cancelled
        /\ calls[t].parent.at < calls[t].start + Timeout(client)
        /\ now >= calls[t].parent.at
        /\ now < calls[t].start + Timeout(client)
        /\ Done(calls[t].ctx, calls[t].parent, now)

\* C8: the debug line never aborts a call: no entry point ends in a panic
\* raised while writing the debug log, whatever the request.
C8_DebugNeverAborts ==
    \A t \in Threads : calls[t].panic # "log"

\* C9: the stream GenerateStream returns is the channel the bound generator
\* made; its consumer has received a prefix of the fragments emitted, in
\* emission order, and all of them once it sees the end of the stream.
C9_StreamPassedThrough ==
    \A t \in Threads :
        (/\ Returned(t)
         /\ calls[t].op = "GenerateStream"
         /\ calls[t].out.err.kind = "nil")
        => /\ calls[t].ret.resp = calls[t].out.resp
           /\ Len(calls[t].recv) <= Len(calls[t].chan.sent)
           /\ calls[t].recv = SubSeq(calls[t].chan.sent, 1, Len(calls[t].recv))
           /\ calls[t].ended => /\ calls[t].chan.closed
                                /\ calls[t].recv = calls[t].chan.sent

C9_Witness ==
    \E t \in Threads :
        /\ Returned(t)
        /\ calls[t].op = "GenerateStream"
        /\ calls[t].ended
        /\ Len(calls[t].chan.sent) = MaxFragments
        /\ calls[t].recv = calls[t].chan.sent

\* The configuration as an observer reads it: bindings, retry count,
\* timeout, debug flag and the elements of the three fallback lists.
Config(c, h) ==
    [llm |-> c.llm, embedder |-> c.embedder, reranker |-> c.reranker,
     retryCount |-> RetryCount(c), timeout |-> Timeout(c), debug |-> Debug(c),
     fallbackGenerators |-> Elems(h, FallbackGenerators(c)),
     fallbackEmbedders |-> Elems(h, FallbackEmbedders(c)),
     fallbackRerankers |-> Elems(h, FallbackRerankers(c))]

\* The configuration NewClient(args.llm, args.opts...) returned.
Constructed ==
    LET st == ApplyOpts([c |-> AutoDetect(args.llm), h |-> << >>], args.opts)
    IN  Config(st.c, st.h)

\* C10: after NewClient the configuration never changes, whatever calls are
\* made and whatever the caller writes to a slice it passed to a
\* WithFallback* option or got from a Fallback*() accessor.
C10_ConfigurationFrozen ==
    phase = "ready" => Config(client, heap) = Constructed

\* The options of one kind among those passed to NewClient.
HasOpt(opts, kind) == \E i \in DOMAIN opts : opts[i].kind = kind

LastIndex(opts, kind) ==
    CHOOSE i \in DOMAIN opts :
        /\ opts[i].kind = kind
        /\ \A j \in DOMAIN opts : j > i => opts[j].kind # kind

LastOpt(opts, kind) == opts[LastIndex(opts, kind)]

\* The list given to the last option of a WithFallback* kind.
ListSet(opts, kind) ==
    IF HasOpt(opts, kind) THEN LastOpt(opts, kind).list ELSE << >>

\* The slice value the caller passed with it: its own i-th slice, counting
\* the non-empty slices among the options.
SlicePassed(opts, kind) ==
    IF ListSet(opts, kind) = << >> THEN NilSlice
    ELSE [arr |-> Cardinality({j \in 1..LastIndex(opts, kind) : opts[j].list # << >>}),
          len |-> Len(ListSet(opts, kind))]

\* C11: Timeout(), RetryCount() and Debug() return the value the option
\* set, or 30 seconds, 3 and false without the option; FallbackGenerators()
\* returns the very slice the option was given (the empty list without the
\* option): same length, and the same elements in the same order as the
\* caller's slice holds; a value read through an accessor is that value.
C11_RoundTrip ==
    phase = "ready" =>
        /\ Timeout(client) = IF HasOpt(args.opts, "WithTimeout")
                             THEN LastOpt(args.opts, "WithTimeout").n ELSE 30
        /\ RetryCount(client) = IF HasOpt(args.opts, "WithRetryCount")
                                THEN LastOpt(args.opts, "WithRetryCount").n ELSE 3
        /\ Debug(client) = IF HasOpt(args.opts, "WithDebug")
                           THEN LastOpt(args.opts, "WithDebug").flag ELSE FALSE
        /\ LET set == ListSet(args.opts, "WithFallbackGenerators")
               passed == SlicePassed(args.opts, "WithFallbackGenerators")
               read == FallbackGenerators(client)
           IN  /\ read = passed
               /\ Len(Elems(heap, read)) = Len(set)
               /\ (set # << >> /\ heap[passed.arr].elems = set)
                     => Elems(heap, read) = set
        /\ got.acc = "Timeout" => got.int = Timeout(client)
        /\ got.acc = "RetryCount" => got.int = RetryCount(client)
        /\ got.acc = "Debug" => got.flag = Debug(client)
        /\ got.acc = "FallbackGenerators" => got.slice = FallbackGenerators(client)

C11_Witness ==
    /\ phase = "ready"
    /\ got.acc = "FallbackGenerators"
    /\ Len(ListSet(args.opts, "WithFallbackGenerators")) = 2
    /\ ListSet(args.opts, "WithFallbackGenerators")[1]
          # ListSet(args.opts, "WithFallbackGenerators")[2]
    /\ Elems(heap, got.slice) = ListSet(args.opts, "WithFallbackGenerators")

\* C12: on a client built with WithEmbedder(e) (WithReranker(r)) every
\* invocation an Embed (Rerank) call makes is of e (r), none when e (r) is
\* nil, also when the primary satisfies the interface itself; Generate and
\* GenerateStream invoke the primary only.
C12_ExplicitBindingWins ==
    \A t \in Threads : \A k \in DOMAIN calls[t].invoked :
        LET inv == calls[t].invoked[k]
        IN  /\ inv.method = calls[t].op
            /\ (calls[t].op = "Embed" /\ HasOpt(args.opts, "WithEmbedder"))
                  => inv.impl = LastOpt(args.opts, "WithEmbedder").impl
            /\ (calls[t].op = "Rerank" /\ HasOpt(args.opts, "WithReranker"))
                  => inv.impl = LastOpt(args.opts, "WithReranker").impl
            /\ calls[t].op \in {"Generate", "GenerateStream"}
                  => inv.impl = args.llm

C12_Witness ==
    \E t \in Threads :
        /\ HasOpt(args.opts, "WithEmbedder")
        /\ Implements(args.llm, "embedder")
        /\ LastOpt(args.opts, "WithEmbedder").impl # args.llm
        /\ calls[t].op = "Embed"
        /\ Returned(t)
        /\ ~calls[t].ret.resp.isNil
        /\ calls[t].ret.resp.by = LastOpt(args.opts, "WithEmbedder").impl

\* C14: NewClient with a nil primary panics whatever the options are, and
\* only then: no client comes back, no option has been applied (no field
\* set, no slice stored), no implementation has been asked for its name and
\* no call can be made.
C14_NilPrimaryIsFatal ==
    /\ phase # "new" => (phase = "panicked" <=> args.llm = Nil)
    /\ phase = "panicked" =>
          /\ client = NoClient
          /\ heap = << >>
          /\ \A t \in Threads : calls[t] = IdleCall

C14_Witness ==
    /\ phase = "panicked"
    /\ args.llm = Nil
    /\ args.opts # << >>
    /\ args.opts[1].kind = "WithEmbedder"
    /\ args.opts[1].impl # Nil

\* C15: an implementation is only invoked under a deadline scope made from
\* the configured timeout at the start of the call, which is not released
\* while the implementation runs; once the entry point has returned or
\* panicked, every scope it made has been released.
C15_ScopeCoversInvocation ==
    \A t \in Threads :
        /\ calls[t].invoked # << >> => calls[t].ctx.live
        /\ calls[t].pc = "running" =>
              /\ calls[t].invoked # << >>
              /\ ~calls[t].ctx.cancelled
              /\ calls[t].ctx.deadline
                    = ContextWithTimeout(calls[t].parent, client.timeout,
                                         calls[t].start).deadline
              /\ calls[t].ctx.deadline <= calls[t].start + Timeout(client)
        /\ calls[t].pc \in {"returned", "panicked"} =>
              (calls[t].ctx.live => calls[t].ctx.cancelled)

C15_Witness ==
    \E t \in Threads :
        /\ calls[t].pc = "panicked"
        /\ calls[t].panic = "impl"
        /\ calls[t].ctx.live
        /\ calls[t].ctx.cancelled

\* The implementation bound for the capability an entry point serves.
BoundFor(method) ==
    CASE method \in {"Generate", "GenerateStream"} -> client.llm
      [] method = "Embed" -> client.embedder
      [] method = "Rerank" -> client.reranker

\* The implementation has given call t an outcome.
HasOutcome(t) ==
    \/ Returned(t) /\ calls[t].ret.err.kind # "unavailable"
    \/ calls[t].pc = "panicked" /\ calls[t].panic = "impl"

\* C16: whatever the retry count, a call never invokes an implementation
\* twice; a call whose implementation is at work or has given its outcome
\* (response, error or panic) has invoked the bound implementation's method
\* of the entry point's name exactly once.
C16_InvokedOnce ==
    \A t \in Threads :
        /\ Len(calls[t].invoked) <= 1
        /\ (calls[t].pc = "running" \/ HasOutcome(t)) =>
              calls[t].invoked
                 = << [impl |-> BoundFor(calls[t].op), method |-> calls[t].op] >>

C16_Witness ==
    \E t \in Threads :
        /\ RetryCount(client) = MaxRetry
        /\ Returned(t)
        /\ calls[t].ret.err.kind = "impl"
        /\ Len(calls[t].invoked) = 1

\* C13: with two goroutines calling one client in any interleaving, what a
\* call returns is the result chosen from the outcome of its own invocation
\* (response and error made for this call by the implementation it invoked),
\* and while its implementation runs its context is the one derived from its
\* own parent, its own start and the configured timeout, not released by
\* anything another call does; the client's fields stay as constructed.
C13_CallsAreIndependent ==
    /\ phase = "ready" => Config(client, heap) = Constructed
    /\ \A t \in Threads :
        /\ (Returned(t) /\ calls[t].invoked # << >>) =>
              /\ calls[t].ret = Result(calls[t].out)
              /\ calls[t].out \in Outcomes(calls[t].invoked[1].impl, calls[t].op, t)
              /\ ~calls[t].ret.resp.isNil =>
                    /\ calls[t].ret.resp.call = t
                    /\ calls[t].ret.resp.by = calls[t].invoked[1].impl
              /\ calls[t].ret.err # NoErr =>
                    /\ calls[t].ret.err.call = t
                    /\ calls[t].ret.err.by = calls[t].invoked[1].impl
        /\ calls[t].pc = "running" =>
              /\ calls[t].ctx = ContextWithTimeout(calls[t].parent, client.timeout,
                                                   calls[t].start)
              /\ Done(calls[t].ctx, calls[t].parent, now)
                    <=> \/ ParentDone(calls[t].parent, now)
                        \/ now >= calls[t].start + Timeout(client)

\* One call has returned its own response and released its scope while
\* another, begun no later, is still running under a context that is not done.
C13_Witness ==
    \E t \in Threads, u \in Threads :
        /\ t # u
        /\ Returned(t)
        /\ calls[t].ret.resp = Resp(BoundFor(calls[t].op), t)
        /\ calls[t].ctx.cancelled
        /\ calls[u].pc = "running"
        /\ calls[u].op # calls[t].op
        /\ calls[u].start <= calls[t].start
        /\ ~Done(calls[u].ctx, calls[u].parent, now)

====
